---- MODULE Spec2Model ----
(***************************************************************************)
(* TaskFlow feedback subsystem: the submission form (UserFeedback.jsx),    *)
(* the admin view (FeedbackManagement.jsx) and the localStorage slot       *)
(* 'userFeedback' they share.                                              *)
(*                                                                         *)
(* Conventions of the model:                                               *)
(*  - a JavaScript string is a tuple of one-character strings;            *)
(*  - a timestamp is the integer Date.now() returns; toISOString() and     *)
(*    Date.now().toString() are order-preserving injective encodings of    *)
(*    that integer, so the integer stands for both;                        *)
(*  - the slot is [kind, data]: kind "absent" (getItem returns null),      *)
(*    "malformed" (JSON.parse throws) or "json" (data is the JSON text:    *)
(*    the array's objects, each the sequence of its <<key, value>> members *)
(*    in the order JSON.stringify writes them).                            *)
(***************************************************************************)
EXTENDS Integers, Sequences, FiniteSets, TLC

VARIABLES
    now,      \* the wall clock read by Date.now() / new Date()
    slot,     \* localStorage['userFeedback']
    form,     \* form[u]: state of one mounted UserFeedback component
    adm,      \* adm[a]: state of one mounted FeedbackManagement component
    download, \* download[a]: the file the last exportFeedback of tab a handed to the browser
    auth,     \* the session: the localStorage keys of Login.jsx and AuthRouter.jsx, the
              \* auth context, the current route and the state of the Login component
    shell     \* the Navbar's hamburger state, the window globals it exposes and the
              \* state of every ResponsiveSidebar

vars == <<now, slot, form, adm, download, auth, shell>>

----------------------------------------------------------------------------
(* Bounds of the model *)

\* the clock runs from 0 to MaxTime
MaxTime == 2
\* at most MaxRecords records are ever appended to the slot
MaxRecords == 2

Users == {"u1", "u2"}
Admins == {"a1", "a2"}

----------------------------------------------------------------------------
(* Strings *)

Str(lead, body, trail) ==
    [i \in 1..lead |-> " "] \o [i \in 1..body |-> "a"] \o [i \in 1..trail |-> " "]

IsSpace(c) == c = " "

RECURSIVE TrimStart(_)
TrimStart(s) ==
    IF s = <<>> THEN s
    ELSE IF IsSpace(Head(s)) THEN TrimStart(Tail(s)) ELSE s

RECURSIVE TrimEnd(_)
TrimEnd(s) ==
    IF s = <<>> THEN s
    ELSE IF IsSpace(s[Len(s)]) THEN TrimEnd(SubSeq(s, 1, Len(s) - 1)) ELSE s

\* String.prototype.trim
Trim(s) == TrimEnd(TrimStart(s))

----------------------------------------------------------------------------
(* UserFeedback.jsx: validation *)

MinSubjectLen == 5
MinMessageLen == 10

NoError == "none"
ErrSubjectRequired == "Subject is required"
ErrSubjectTooShort == "Subject must be at least 5 characters long"
ErrMessageRequired == "Message is required"
ErrMessageTooShort == "Message must be at least 10 characters long"
ErrRatingRequired == "Please provide a rating"
ErrSubmitFailed == "Failed to submit feedback. Please try again."
ErrLoadFailed == "Failed to load feedback. Please try again."

\* validateForm with the rating rule tested before the text rules
validateFormRatingFirst(fd) ==
    IF fd.rating = 0 THEN ErrRatingRequired
    ELSE IF Trim(fd.subject) = <<>> THEN ErrSubjectRequired
    ELSE IF Len(Trim(fd.subject)) < MinSubjectLen THEN ErrSubjectTooShort
    ELSE IF Trim(fd.message) = <<>> THEN ErrMessageRequired
    ELSE IF Len(Trim(fd.message)) < MinMessageLen THEN ErrMessageTooShort
    ELSE NoError

\* validateForm without its rating rule
validateFormNoRating(fd) ==
    IF Trim(fd.subject) = <<>> THEN ErrSubjectRequired
    ELSE IF Len(Trim(fd.subject)) < MinSubjectLen THEN ErrSubjectTooShort
    ELSE IF Trim(fd.message) = <<>> THEN ErrMessageRequired
    ELSE IF Len(Trim(fd.message)) < MinMessageLen THEN ErrMessageTooShort
    ELSE NoError

\* validateForm: the message it passes to setError, or NoError when it returns true
validateForm(fd) ==
    IF Trim(fd.subject) = <<>> THEN ErrSubjectRequired
    ELSE IF Len(Trim(fd.subject)) < MinSubjectLen THEN ErrSubjectTooShort
    ELSE IF Trim(fd.message) = <<>> THEN ErrMessageRequired
    ELSE IF Len(Trim(fd.message)) < MinMessageLen THEN ErrMessageTooShort
    ELSE IF fd.rating = 0 THEN ErrRatingRequired
    ELSE NoError

----------------------------------------------------------------------------
(* The shared slot: localStorage.getItem / setItem with JSON.parse / JSON.stringify *)

Absent == [kind |-> "absent", data |-> <<>>]
Malformed == [kind |-> "malformed", data |-> <<>>]

\* the members JSON.stringify writes for one feedback object, in the order the
\* object literal of handleSubmit created its keys ({...f, status, updatedAt} of
\* updateFeedbackStatus keeps that order)
Members(f) ==
    << <<"id", f.id>>, <<"category", f.category>>, <<"subject", f.subject>>,
       <<"message", f.message>>, <<"rating", f.rating>>,
       <<"userEmail", f.userEmail>>, <<"userName", f.userName>>,
       <<"status", f.status>>, <<"createdAt", f.createdAt>>,
       <<"updatedAt", f.updatedAt>> >>

\* JSON.stringify of an array of feedback objects
JSONStringify(list) == [i \in 1..Len(list) |-> Members(list[i])]

\* the value JSON.parse gives the key of an object: that of its last member with
\* that key, undefined ("undefined" here) when no member has it
Member(members, key) ==
    LET at == {j \in 1..Len(members) : members[j][1] = key}
    IN IF at = {} THEN "undefined"
       ELSE members[CHOOSE j \in at : \A k \in at : k <= j][2]

\* a parse that returns the objects of the array in reverse order
JSONParseReversed(text) ==
    [i \in 1..Len(text) |->
       [id |-> Member(text[Len(text) + 1 - i], "id"),
        category |-> Member(text[Len(text) + 1 - i], "category"),
        subject |-> Member(text[Len(text) + 1 - i], "subject"),
        message |-> Member(text[Len(text) + 1 - i], "message"),
        rating |-> Member(text[Len(text) + 1 - i], "rating"),
        userEmail |-> Member(text[Len(text) + 1 - i], "userEmail"),
        userName |-> Member(text[Len(text) + 1 - i], "userName"),
        status |-> Member(text[Len(text) + 1 - i], "status"),
        createdAt |-> Member(text[Len(text) + 1 - i], "createdAt"),
        updatedAt |-> Member(text[Len(text) + 1 - i], "updatedAt")]]

\* JSON.parse of the text of an array of feedback objects
JSONParse(text) ==
    [i \in 1..Len(text) |->
       [id |-> Member(text[i], "id"), category |-> Member(text[i], "category"),
        subject |-> Member(text[i], "subject"), message |-> Member(text[i], "message"),
        rating |-> Member(text[i], "rating"), userEmail |-> Member(text[i], "userEmail"),
        userName |-> Member(text[i], "userName"), status |-> Member(text[i], "status"),
        createdAt |-> Member(text[i], "createdAt"),
        updatedAt |-> Member(text[i], "updatedAt")]]

\* localStorage.setItem('userFeedback', JSON.stringify(list))
Stored(list) == [kind |-> "json", data |-> JSONStringify(list)]

\* a parse that falls back to the empty array instead of throwing
ParseNeverThrows(s) == FALSE

\* JSON.parse(localStorage.getItem('userFeedback') || '[]') throws a SyntaxError
ParseThrows(s) == s.kind = "malformed"

\* JSON.parse(localStorage.getItem('userFeedback') || '[]') when it does not throw:
\* getItem returns null for an absent key and '[]' is parsed instead
Parsed(s) == IF s.kind = "json" THEN JSONParse(s.data) ELSE <<>>

----------------------------------------------------------------------------
(* UserFeedback.jsx: component state *)

\* the profile record the mount effect finds under 'userProfile'
Profile(u) ==
    IF u = "u1" THEN [email |-> <<"a", "@", "x">>, name |-> <<"A", "n">>]
    ELSE [email |-> <<"b", "@", "x">>, name |-> <<>>]

\* name || 'User'
NameOrUser(name) == IF name = <<>> THEN <<"U", "s", "e", "r">> ELSE name

\* useState initial formData, then the mount effect's profile lookup
InitialFormData(u) ==
    [category |-> "general", subject |-> <<>>, message |-> <<>>, rating |-> 0,
     userEmail |-> Profile(u).email, userName |-> NameOrUser(Profile(u).name)]

\* the object handleSubmit's setTimeout callback passes to setFormData
ResetFormData(fd) ==
    [category |-> "general", subject |-> <<>>, message |-> <<>>, rating |-> 0,
     userEmail |-> fd.userEmail, userName |-> fd.userName]

\* pc: "idle" no callback pending; "submitting" the 1000 ms await is pending;
\* "resetting" the 3000 ms reset timer is pending.  sub is the formData the
\* pending callbacks closed over, t0 the clock when the pending timer was set
\* (both back to their initial values once no callback is pending).
InitialForm(u) ==
    [formData |-> InitialFormData(u), loading |-> FALSE, success |-> FALSE,
     error |-> NoError, pc |-> "idle", sub |-> InitialFormData(u), t0 |-> 0]

\* the feedback object handleSubmit builds: id from Date.now(), the spread formData,
\* createdAt and updatedAt from two further reads of the clock
NewFeedback(fd, tId, tCreated, tUpdated) ==
    [id |-> tId, category |-> fd.category, subject |-> fd.subject,
     message |-> fd.message, rating |-> fd.rating, userEmail |-> fd.userEmail,
     userName |-> fd.userName, status |-> "pending",
     createdAt |-> tCreated, updatedAt |-> tUpdated]

\* unshift in place of push
PushFront(list, feedback) == <<feedback>> \o list

\* existingFeedback.push(feedback)
Push(list, feedback) == Append(list, feedback)

\* handleInputChange for the inputs named subject, message and category
handleInputChange(u, name, value) ==
    /\ form' = [form EXCEPT ![u].formData[name] = value, ![u].error = NoError]
    /\ UNCHANGED <<now, slot, adm, download, auth, shell>>

\* handleRatingClick(star)
handleRatingClick(u, star) ==
    /\ form' = [form EXCEPT ![u].formData.rating = star]
    /\ UNCHANGED <<now, slot, adm, download, auth, shell>>

\* handleSubmit without the validateForm test: whatever was typed is submitted
handleSubmitUnvalidated(u) ==
    /\ ~form[u].loading /\ ~form[u].success
    /\ Len(Parsed(slot)) < MaxRecords
    /\ form' = [form EXCEPT ![u].loading = TRUE, ![u].error = NoError,
                            ![u].pc = "submitting",
                            ![u].sub = form[u].formData, ![u].t0 = now]
    /\ UNCHANGED <<now, slot, adm, download, auth, shell>>

\* handleSubmit up to its await; the submit button is disabled while loading or success
handleSubmit(u) ==
    /\ ~form[u].loading /\ ~form[u].success
    /\ LET e == validateForm(form[u].formData) IN
         IF e # NoError
         THEN form' = [form EXCEPT ![u].error = e]
         ELSE /\ Len(Parsed(slot)) < MaxRecords
              /\ form' = [form EXCEPT ![u].loading = TRUE, ![u].error = NoError,
                                      ![u].pc = "submitting",
                                      ![u].sub = form[u].formData, ![u].t0 = now]
    /\ UNCHANGED <<now, slot, adm, download, auth, shell>>

\* handleSubmit after its await without the finally block: a failure leaves
\* loading set
handleSubmitResumeNoFinally(u) ==
    /\ form[u].pc = "submitting"
    /\ now > form[u].t0
    /\ \E d1 \in 0..1, d2 \in 0..1 :
         /\ now + d1 + d2 <= MaxTime
         /\ now' = now + d1 + d2
         /\ IF ParseThrows(slot)
            THEN /\ slot' = slot
                 /\ form' = [form EXCEPT ![u].error = ErrSubmitFailed, ![u].pc = "idle",
                                         ![u].sub = InitialFormData(u), ![u].t0 = 0]
            ELSE /\ slot' = Stored(Push(Parsed(slot),
                                NewFeedback(form[u].sub, now, now + d1, now + d1 + d2)))
                 /\ form' = [form EXCEPT ![u].success = TRUE, ![u].loading = FALSE,
                                         ![u].pc = "resetting", ![u].t0 = now']
    /\ UNCHANGED <<adm, download, auth, shell>>

\* handleSubmit after its await: the clock is read three times (d1, d2: what it
\* advanced between the reads), then the slot is read, extended and written
handleSubmitResume(u) ==
    /\ form[u].pc = "submitting"
    /\ now > form[u].t0
    /\ \E d1 \in 0..1, d2 \in 0..1 :
         /\ now + d1 + d2 <= MaxTime
         /\ now' = now + d1 + d2
         /\ IF ParseThrows(slot)
            THEN /\ slot' = slot
                 /\ form' = [form EXCEPT ![u].error = ErrSubmitFailed,
                                         ![u].loading = FALSE, ![u].pc = "idle",
                                         ![u].sub = InitialFormData(u), ![u].t0 = 0]
            ELSE /\ slot' = Stored(Push(Parsed(slot),
                                NewFeedback(form[u].sub, now, now + d1, now + d1 + d2)))
                 /\ form' = [form EXCEPT ![u].success = TRUE, ![u].loading = FALSE,
                                         ![u].pc = "resetting", ![u].t0 = now']
    /\ UNCHANGED <<adm, download, auth, shell>>

\* the reset callback handleSubmit schedules after a success
handleSubmitReset(u) ==
    /\ form[u].pc = "resetting"
    /\ now > form[u].t0
    /\ form' = [form EXCEPT ![u].formData = ResetFormData(form[u].sub),
                            ![u].success = FALSE, ![u].pc = "idle",
                            ![u].sub = InitialFormData(u), ![u].t0 = 0]
    /\ UNCHANGED <<now, slot, adm, download, auth, shell>>

\* the wall clock advances
Tick ==
    /\ now < MaxTime
    /\ now' = now + 1
    /\ UNCHANGED <<slot, form, adm, download, auth, shell>>

----------------------------------------------------------------------------
(* FeedbackManagement.jsx: the query engine (filters, sort, statistics) *)

\* UTF-16 code unit of the characters the model uses
CharCode(c) ==
    CASE c = " " -> 32 [] c = "@" -> 64 [] c = "A" -> 65 [] c = "B" -> 66
      [] c = "U" -> 85 [] c = "a" -> 97 [] c = "b" -> 98 [] c = "e" -> 101
      [] c = "n" -> 110 [] c = "r" -> 114 [] c = "s" -> 115 [] c = "u" -> 117
      [] c = "x" -> 120

ToLowerChar(c) ==
    CASE c = "A" -> "a" [] c = "B" -> "b" [] c = "U" -> "u" [] OTHER -> c

\* String.prototype.toLowerCase
ToLowerCase(s) == [i \in 1..Len(s) |-> ToLowerChar(s[i])]

\* String.prototype.includes
Includes(s, t) ==
    \E i \in 0..(Len(s) - Len(t)) : SubSeq(s, i + 1, i + Len(t)) = t

\* a < b on strings: lexicographic by code unit
RECURSIVE StrLess(_, _)
StrLess(a, b) ==
    IF b = <<>> THEN FALSE
    ELSE IF a = <<>> THEN TRUE
    ELSE IF CharCode(Head(a)) # CharCode(Head(b))
         THEN CharCode(Head(a)) < CharCode(Head(b))
         ELSE StrLess(Tail(a), Tail(b))

\* parseInt of the rating select's option values
ParseInt(v) ==
    CASE v = "1" -> 1 [] v = "2" -> 2 [] v = "3" -> 3 [] v = "4" -> 4 [] v = "5" -> 5

\* a search that looks at the subject only
MatchesSearchSubjectOnly(f, searchTerm) ==
    Includes(ToLowerCase(f.subject), searchTerm)

\* the predicate of the search filter
MatchesSearch(f, searchTerm) ==
    \/ Includes(ToLowerCase(f.subject), searchTerm)
    \/ Includes(ToLowerCase(f.message), searchTerm)
    \/ Includes(ToLowerCase(f.userName), searchTerm)
    \/ Includes(ToLowerCase(f.userEmail), searchTerm)

\* the filters with the rating filter applied even when it is 'all'
\* (parseInt('all') is NaN, which no rating equals)
ApplyFiltersRatingAlways(feedback, filters) ==
    LET ByCategory(f) == filters.category = "all" \/ f.category = filters.category
        ByStatus(f) == filters.status = "all" \/ f.status = filters.status
        ByRating(f) == filters.rating # "all" /\ f.rating = ParseInt(filters.rating)
        BySearch(f) == Trim(filters.search) = <<>>
                       \/ MatchesSearch(f, ToLowerCase(filters.search))
    IN SelectSeq(SelectSeq(SelectSeq(SelectSeq(feedback, ByCategory), ByStatus), ByRating), BySearch)

\* the filter part of the filtering effect
ApplyFilters(feedback, filters) ==
    LET ByCategory(f) == filters.category = "all" \/ f.category = filters.category
        ByStatus(f) == filters.status = "all" \/ f.status = filters.status
        ByRating(f) == filters.rating = "all" \/ f.rating = ParseInt(filters.rating)
        BySearch(f) == Trim(filters.search) = <<>>
                       \/ MatchesSearch(f, ToLowerCase(filters.search))
    IN \* Array.prototype.filter, once per active filter
       SelectSeq(SelectSeq(SelectSeq(SelectSeq(feedback, ByCategory), ByStatus), ByRating), BySearch)

\* aVal < bVal for the sort key (createdAt through new Date(), the others as stored)
ValLess(key, a, b) ==
    CASE key = "createdAt" -> a.createdAt < b.createdAt
      [] key = "userName" -> StrLess(a.userName, b.userName)
      [] key = "rating" -> a.rating < b.rating

\* a comparator that sorts ascending whatever the direction
CompareAscending(sortConfig, a, b) ==
    IF ValLess(sortConfig.key, a, b) THEN -1
    ELSE IF ValLess(sortConfig.key, b, a) THEN 1
    ELSE 0

\* the comparator passed to result.sort
Compare(sortConfig, a, b) ==
    IF ValLess(sortConfig.key, a, b)
    THEN (IF sortConfig.direction = "asc" THEN -1 ELSE 1)
    ELSE IF ValLess(sortConfig.key, b, a)
    THEN (IF sortConfig.direction = "asc" THEN 1 ELSE -1)
    ELSE 0

\* Array.prototype.sort is stable: x goes before the first element it precedes
RECURSIVE InsertSorted(_, _, _)
InsertSorted(sorted, x, sortConfig) ==
    IF sorted = <<>> THEN <<x>>
    ELSE IF Compare(sortConfig, x, Head(sorted)) < 0 THEN <<x>> \o sorted
    ELSE <<Head(sorted)>> \o InsertSorted(Tail(sorted), x, sortConfig)

RECURSIVE SortBy(_, _)
SortBy(list, sortConfig) ==
    IF list = <<>> THEN <<>>
    ELSE InsertSorted(SortBy(SubSeq(list, 1, Len(list) - 1), sortConfig),
                      list[Len(list)], sortConfig)

\* the filtering effect: what it passes to setFilteredFeedback
FilteredView(feedback, filters, sortConfig) ==
    SortBy(ApplyFilters(feedback, filters), sortConfig)

RECURSIVE SumRatings(_)
SumRatings(list) ==
    IF list = <<>> THEN 0 ELSE Head(list).rating + SumRatings(Tail(list))

CountStatus(list, st) == Cardinality({i \in 1..Len(list) : list[i].status = st})

\* Math.floor in place of Math.round
TruncatedAverage10(sum, total) ==
    IF total > 0 THEN (10 * sum) \div total ELSE 0

\* Math.round(averageRating * 10) / 10, kept in tenths
RoundedAverage10(sum, total) ==
    IF total > 0 THEN (20 * sum + total) \div (2 * total) ELSE 0

\* calculateStats: the object it passes to setStats (averageRating in tenths)
calculateStats(feedbackList) ==
    [total |-> Len(feedbackList),
     pending |-> CountStatus(feedbackList, "pending"),
     reviewed |-> CountStatus(feedbackList, "reviewed"),
     resolved |-> CountStatus(feedbackList, "resolved"),
     averageRating10 |-> RoundedAverage10(SumRatings(feedbackList), Len(feedbackList))]

----------------------------------------------------------------------------
(* FeedbackManagement.jsx: component state *)

InitialFilters == [category |-> "all", status |-> "all", rating |-> "all", search |-> <<>>]
InitialSort == [key |-> "createdAt", direction |-> "desc"]

\* the useState initial values; selectedFeedback is <<>> for null, else <<record>>;
\* pc "loading": the 800 ms await of loadFeedback is pending since t0
InitialAdmin(t) ==
    [feedback |-> <<>>, filteredFeedback |-> <<>>, loading |-> TRUE, error |-> NoError,
     selectedFeedback |-> <<>>, filters |-> InitialFilters, sortConfig |-> InitialSort,
     stats |-> calculateStats(<<>>), pc |-> "loading", t0 |-> t]

\* the table and the modal are rendered only past the loading and error returns
Rendered(a) == ~adm[a].loading /\ adm[a].error = NoError

\* the component is mounted again (navigation to the route, page reload)
Mount(a) ==
    /\ adm' = [adm EXCEPT ![a] = InitialAdmin(now)]
    /\ UNCHANGED <<now, slot, form, download, auth, shell>>

\* loadFeedback after its await, followed by the filtering effect
loadFeedback(a) ==
    /\ adm[a].pc = "loading"
    /\ now > adm[a].t0
    /\ IF ParseThrows(slot)
       THEN adm' = [adm EXCEPT ![a].error = ErrLoadFailed, ![a].loading = FALSE,
                               ![a].pc = "ready", ![a].t0 = 0]
       ELSE adm' = [adm EXCEPT ![a].feedback = Parsed(slot),
                               ![a].filteredFeedback =
                                   FilteredView(Parsed(slot), adm[a].filters, adm[a].sortConfig),
                               ![a].stats = calculateStats(Parsed(slot)),
                               ![a].error = NoError, ![a].loading = FALSE,
                               ![a].pc = "ready", ![a].t0 = 0]
    /\ UNCHANGED <<now, slot, form, download, auth, shell>>

\* a map that sets the status and leaves updatedAt as it was
RECURSIVE MapStatusKeepsTime(_, _, _, _, _)
MapStatusKeepsTime(list, feedbackId, newStatus, t, d) ==
    IF list = <<>> THEN <<>>
    ELSE IF Head(list).id = feedbackId
         THEN <<[Head(list) EXCEPT !.status = newStatus]>>
              \o MapStatusKeepsTime(Tail(list), feedbackId, newStatus, t + d, 0)
         ELSE <<Head(list)>> \o MapStatusKeepsTime(Tail(list), feedbackId, newStatus, t, d)

\* feedback.map(f => f.id === feedbackId ? {...f, status, updatedAt: new Date()} : f):
\* the clock is read once per matching element, t at the first and t + d afterwards
RECURSIVE MapStatus(_, _, _, _, _)
MapStatus(list, feedbackId, newStatus, t, d) ==
    IF list = <<>> THEN <<>>
    ELSE IF Head(list).id = feedbackId
         THEN <<[Head(list) EXCEPT !.status = newStatus, !.updatedAt = t]>>
              \o MapStatus(Tail(list), feedbackId, newStatus, t + d, 0)
         ELSE <<Head(list)>> \o MapStatus(Tail(list), feedbackId, newStatus, t, d)

Matches(list, feedbackId) == {i \in 1..Len(list) : list[i].id = feedbackId}

\* a write that is skipped: the slot keeps what it held
PersistedSkipped(updatedFeedback, s) == s

\* the slot after updateFeedbackStatus wrote updatedFeedback; s is the slot before
Persisted(updatedFeedback, s) == Stored(updatedFeedback)

\* updateFeedbackStatus(feedbackId, newStatus), followed by the filtering effect
updateFeedbackStatus(a, feedbackId, newStatus) ==
    \E d \in 0..1 :
      /\ d = 1 => (Cardinality(Matches(adm[a].feedback, feedbackId)) > 1 /\ now < MaxTime)
      /\ LET updatedFeedback == MapStatus(adm[a].feedback, feedbackId, newStatus, now, d)
             sel == adm[a].selectedFeedback
         IN /\ adm' = [adm EXCEPT
                  ![a].feedback = updatedFeedback,
                  ![a].filteredFeedback =
                      FilteredView(updatedFeedback, adm[a].filters, adm[a].sortConfig),
                  ![a].stats = calculateStats(updatedFeedback),
                  ![a].selectedFeedback =
                      IF sel # <<>> /\ sel[1].id = feedbackId
                      THEN <<[sel[1] EXCEPT !.status = newStatus]>> ELSE sel]
            /\ slot' = Persisted(updatedFeedback, slot)
      /\ now' = now + d
      /\ UNCHANGED <<form, download, auth, shell>>

\* the table row's status button: one of two, by the row's status
RowStatusButton(a, i) ==
    /\ Rendered(a)
    /\ i \in 1..Len(adm[a].filteredFeedback)
    /\ LET item == adm[a].filteredFeedback[i] IN
         \/ item.status = "pending" /\ updateFeedbackStatus(a, item.id, "reviewed")
         \/ item.status = "reviewed" /\ updateFeedbackStatus(a, item.id, "resolved")

\* the detail modal's status buttons, by selectedFeedback.status
ModalStatusButton(a) ==
    /\ Rendered(a)
    /\ adm[a].selectedFeedback # <<>>
    /\ LET sel == adm[a].selectedFeedback[1] IN
         \/ sel.status = "pending" /\ updateFeedbackStatus(a, sel.id, "reviewed")
         \/ sel.status = "reviewed" /\ updateFeedbackStatus(a, sel.id, "resolved")
         \/ sel.status # "pending" /\ updateFeedbackStatus(a, sel.id, "pending")

\* the row's View Details button: setSelectedFeedback(item)
ViewDetails(a, i) ==
    /\ Rendered(a)
    /\ i \in 1..Len(adm[a].filteredFeedback)
    /\ adm' = [adm EXCEPT ![a].selectedFeedback = <<adm[a].filteredFeedback[i]>>]
    /\ UNCHANGED <<now, slot, form, download, auth, shell>>

\* the modal's close button: setSelectedFeedback(null)
CloseDetails(a) ==
    /\ Rendered(a)
    /\ adm[a].selectedFeedback # <<>>
    /\ adm' = [adm EXCEPT ![a].selectedFeedback = <<>>]
    /\ UNCHANGED <<now, slot, form, download, auth, shell>>

\* a filter change after which the statistics are taken from the filtered view
handleFilterChangeRestat(a, filterType, value) ==
    /\ Rendered(a)
    /\ LET filters == [adm[a].filters EXCEPT ![filterType] = value]
           view == FilteredView(adm[a].feedback, filters, adm[a].sortConfig)
       IN adm' = [adm EXCEPT ![a].filters = filters, ![a].filteredFeedback = view,
                             ![a].stats = calculateStats(view)]
    /\ UNCHANGED <<now, slot, form, download, auth, shell>>

\* handleFilterChange(filterType, value), followed by the filtering effect
handleFilterChange(a, filterType, value) ==
    /\ Rendered(a)
    /\ LET filters == [adm[a].filters EXCEPT ![filterType] = value]
       IN adm' = [adm EXCEPT ![a].filters = filters,
                             ![a].filteredFeedback =
                                 FilteredView(adm[a].feedback, filters, adm[a].sortConfig)]
    /\ UNCHANGED <<now, slot, form, download, auth, shell>>

\* handleSort(key), followed by the filtering effect
handleSort(a, key) ==
    /\ Rendered(a)
    /\ LET prev == adm[a].sortConfig
           sortConfig == [key |-> key,
                          direction |-> IF prev.key = key /\ prev.direction = "asc"
                                        THEN "desc" ELSE "asc"]
       IN adm' = [adm EXCEPT ![a].sortConfig = sortConfig,
                             ![a].filteredFeedback =
                                 FilteredView(adm[a].feedback, adm[a].filters, sortConfig)]
    /\ UNCHANGED <<now, slot, form, download, auth, shell>>

\* the date part of toISOString(): the day the millisecond t falls in
DatePart(t) == t \div 86400000

\* an export of the full list in place of the view
ExportDataFull(a) == adm[a].feedback

\* the array exportFeedback serializes
ExportData(a) == adm[a].filteredFeedback

\* exportFeedback: the blob and the file name given to the download link
exportFeedback(a) ==
    /\ Rendered(a)
    /\ download' = [download EXCEPT ![a] =
                       <<[name |-> DatePart(now), data |-> JSONStringify(ExportData(a))]>>]
    /\ UNCHANGED <<now, slot, form, adm, auth, shell>>

----------------------------------------------------------------------------
(* AuthRouter.jsx and the Login component: the session.                     *)
(* A key that is not set, the context's null user and an undefined result   *)
(* are <<>>, a value v that is there is <<v>>; the role keys are strings    *)
(* with "null" for a key that is not set.  useAuth() comes from AuthContext, *)
(* which is not part of the sources: its user is any value, its loading     *)
(* flag is cleared once, and login(email) makes the email its user.          *)

Null == "null"

\* the users Login falls back to when the key 'users' is not set (the addresses
\* and the password are shortened)
DefaultUsers ==
    <<[email |-> <<"a", "@", "x">>, password |-> <<"p", "w">>,
       role |-> "admin", userId |-> "admin-123"],
      [email |-> <<"u", "@", "x">>, password |-> <<"p", "w">>,
       role |-> "user", userId |-> "user-456"]>>

\* JSON.parse(localStorage.getItem('users') || JSON.stringify([...]))
StoredUsers(users) == IF users.kind = "json" THEN users.data ELSE DefaultUsers

\* storedUsers.find(u => u.email === email && u.password === password)
FindUser(storedUsers, email, password) ==
    LET at == {i \in 1..Len(storedUsers) :
                 storedUsers[i].email = email /\ storedUsers[i].password = password}
    IN IF at = {} THEN <<>>
       ELSE <<storedUsers[CHOOSE i \in at : \A j \in at : i <= j]>>

\* a role test that lets every account in
RoleAlwaysMatches(user, selectedRole) == TRUE

\* the negation of user.role !== selectedRole
RoleMatches(user, selectedRole) == user.role = selectedRole

ErrCredentialsRequired == "Email and password are required"
ErrInvalidCredentials == "Invalid email or password"
ErrWrongRole(role) ==
    IF role = "admin"
    THEN "This account is registered as Administrator. Please select the correct role or use a different account."
    ELSE "This account is registered as Team Member. Please select the correct role or use a different account."
ErrUnexpected == "An unexpected error occurred. Please try again."

\* the useState initial values of Login; pc "submitting": the 800 ms await of
\* handleSubmit is pending since t0, sub is what its closure holds; checked: the
\* existing-authentication effect has run
InitialLogin ==
    [email |-> <<>>, password |-> <<>>, error |-> NoError, loading |-> FALSE,
     selectedRole |-> Null, showLoginForm |-> FALSE, pc |-> "idle",
     sub |-> [email |-> <<>>, password |-> <<>>, selectedRole |-> Null],
     t0 |-> 0, checked |-> FALSE]

\* nothing stored, the context still loading, the visitor on the root path
InitialAuth ==
    [token |-> <<>>, userRole |-> Null, userId |-> Null, email |-> <<>>,
     users |-> Absent, userLogs |-> Absent,
     user |-> <<>>, loading |-> TRUE, path |-> "/", login |-> InitialLogin]

\* a router that looks at the stored role only
AuthRouterTargetByRoleOnly(user, token, userRole) ==
    IF userRole = "admin" THEN "/admin/dashboard"
    ELSE IF userRole = "user" THEN "/user/dashboard"
    ELSE "/login"

\* where AuthRouter navigates once loading is false
AuthRouterTarget(user, token, userRole) ==
    IF ~(user # <<>> \/ token # <<>>) THEN "/login"
    ELSE IF userRole = "admin" THEN "/admin/dashboard"
    ELSE IF userRole = "user" THEN "/user/dashboard"
    ELSE "/login"

\* the route changes: a Login that is left is unmounted, one that is reached is
\* mounted with its initial state
GoTo(a, path) == [a EXCEPT !.path = path, !.login = InitialLogin]

\* the auth context finishes its check
AuthChecked ==
    /\ auth.loading
    /\ auth' = [auth EXCEPT !.loading = FALSE]
    /\ UNCHANGED <<now, slot, form, adm, download, shell>>

\* AuthRouter rendered on the root path
AuthRouter ==
    /\ auth.path = "/"
    /\ ~auth.loading
    /\ auth' = GoTo(auth, AuthRouterTarget(auth.user, auth.token, auth.userRole))
    /\ UNCHANGED <<now, slot, form, adm, download, shell>>

\* userRole === "admin" ? "/admin/dashboard" : "/user/dashboard", of the
\* existing-authentication effect and of the navigation after a login (from is
\* "/": no navigation of the model passes a location state)
LoginDashboard(userRole) ==
    IF userRole = "admin" THEN "/admin/dashboard" ELSE "/user/dashboard"

\* Login's effect that checks for existing authentication, after its mount
LoginExistingAuth ==
    /\ auth.path = "/login"
    /\ ~auth.login.checked
    /\ IF auth.token # <<>>
       THEN auth' = GoTo(auth, LoginDashboard(auth.userRole))
       ELSE auth' = [auth EXCEPT !.login.checked = TRUE]
    /\ UNCHANGED <<now, slot, form, adm, download, shell>>

\* handleRoleSelect(role) of the role selection screen
handleRoleSelect(role) ==
    /\ auth.path = "/login" /\ auth.login.checked
    /\ ~auth.login.showLoginForm
    /\ auth' = [auth EXCEPT !.login.selectedRole = role,
                            !.login.showLoginForm = TRUE, !.login.error = NoError]
    /\ UNCHANGED <<now, slot, form, adm, download, shell>>

\* handleBackToRoleSelection
handleBackToRoleSelection ==
    /\ auth.path = "/login" /\ auth.login.checked
    /\ auth.login.showLoginForm
    /\ auth' = [auth EXCEPT !.login.showLoginForm = FALSE, !.login.selectedRole = Null,
                            !.login.email = <<>>, !.login.password = <<>>,
                            !.login.error = NoError]
    /\ UNCHANGED <<now, slot, form, adm, download, shell>>

\* the onChange of the email input
setEmail(value) ==
    /\ auth.path = "/login" /\ auth.login.checked /\ auth.login.showLoginForm
    /\ auth' = [auth EXCEPT !.login.email = value]
    /\ UNCHANGED <<now, slot, form, adm, download, shell>>

\* the onChange of the password input
setPassword(value) ==
    /\ auth.path = "/login" /\ auth.login.checked /\ auth.login.showLoginForm
    /\ auth' = [auth EXCEPT !.login.password = value]
    /\ UNCHANGED <<now, slot, form, adm, download, shell>>

\* Login's handleSubmit up to its await; the submit button is disabled while loading
LoginSubmit ==
    /\ auth.path = "/login" /\ auth.login.checked /\ auth.login.showLoginForm
    /\ ~auth.login.loading
    /\ IF Trim(auth.login.email) = <<>> \/ Trim(auth.login.password) = <<>>
       THEN auth' = [auth EXCEPT !.login.error = ErrCredentialsRequired]
       ELSE auth' = [auth EXCEPT !.login.error = NoError, !.login.loading = TRUE,
                                 !.login.pc = "submitting", !.login.t0 = now,
                                 !.login.sub = [email |-> auth.login.email,
                                                password |-> auth.login.password,
                                                selectedRole |-> auth.login.selectedRole]]
    /\ UNCHANGED <<now, slot, form, adm, download, shell>>

\* the log entry of a login
LogData(user, email, t) ==
    [id |-> t, userId |-> user.userId, username |-> email, role |-> user.role,
     action |-> "login", loginTime |-> t]

\* the Login state once handleSubmit has ended with the error e
LoginFailed(l, e) ==
    [l EXCEPT !.error = e, !.loading = FALSE, !.pc = "idle", !.t0 = 0,
              !.sub = InitialLogin.sub]

\* Login's handleSubmit after its await
LoginSubmitResume ==
    /\ auth.login.pc = "submitting"
    /\ now > auth.login.t0
    /\ LET sub == auth.login.sub
           found == FindUser(StoredUsers(auth.users), sub.email, sub.password)
       IN IF ParseThrows(auth.users)
          THEN auth' = [auth EXCEPT !.login = LoginFailed(auth.login, ErrUnexpected)]
          ELSE IF found = <<>>
          THEN auth' = [auth EXCEPT !.login = LoginFailed(auth.login, ErrInvalidCredentials)]
          ELSE IF ~RoleMatches(found[1], sub.selectedRole)
          THEN auth' = [auth EXCEPT !.login =
                                      LoginFailed(auth.login, ErrWrongRole(found[1].role))]
          ELSE IF ParseThrows(auth.userLogs)
          THEN auth' = [auth EXCEPT !.token = <<now>>, !.userRole = found[1].role,
                                    !.userId = found[1].userId, !.email = <<sub.email>>,
                                    !.login = LoginFailed(auth.login, ErrUnexpected)]
          ELSE auth' = GoTo([auth EXCEPT
                               !.token = <<now>>, !.userRole = found[1].role,
                               !.userId = found[1].userId, !.email = <<sub.email>>,
                               !.userLogs = [kind |-> "json",
                                             data |-> Append(auth.userLogs.data,
                                                        LogData(found[1], sub.email, now))],
                               !.user = <<sub.email>>],
                            LoginDashboard(found[1].role))
    /\ UNCHANGED <<now, slot, form, adm, download, shell>>

\* the visitor opens the root path or the login page
Visit(path) ==
    /\ auth.login.pc = "idle"
    /\ auth.path # path
    /\ auth' = GoTo(auth, path)
    /\ UNCHANGED <<now, slot, form, adm, download, shell>>

----------------------------------------------------------------------------
(* Navbar.jsx and ResponsiveSidebar.jsx: the hamburger state.               *)
(* shell.sidebarOpen is the Navbar's state, shell.exposed whether its effect *)
(* has run since the state last changed, shell.window the two globals        *)
(* (sidebarOpen is <<>> while undefined, <<b>> after), shell.mobile whether  *)
(* window.innerWidth < 768, shell.side the state of each ResponsiveSidebar.  *)

Sidebars == {"s1", "s2"}

Dashboards == {"/admin/dashboard", "/user/dashboard"}

\* a ResponsiveSidebar that is not mounted, and the useState initial values
InitialSidebar == [mounted |-> FALSE, isSidebarOpen |-> FALSE, isMobile |-> FALSE]

\* the Navbar is mounted with sidebarOpen false and its effects still to run
InitialShell ==
    [sidebarOpen |-> FALSE, exposed |-> FALSE,
     window |-> [sidebarOpen |-> <<>>, setSidebarOpen |-> FALSE],
     mobile |-> FALSE,
     side |-> [s \in Sidebars |-> InitialSidebar]]

\* the Navbar's state setter, also reached through window.setSidebarOpen
setSidebarOpen(sh, value) ==
    [sh EXCEPT !.sidebarOpen = value,
               !.exposed = IF value = sh.sidebarOpen THEN sh.exposed ELSE FALSE]

\* handleSidebarToggle of the Navbar; the button is rendered on dashboard pages
handleSidebarToggle ==
    /\ auth.path \in Dashboards
    /\ shell' = setSidebarOpen(shell, ~shell.sidebarOpen)
    /\ UNCHANGED <<now, slot, form, adm, download, auth>>

\* the Navbar's effect that exposes its state to the global scope
NavbarExpose ==
    /\ ~shell.exposed
    /\ shell' = [shell EXCEPT !.exposed = TRUE,
                              !.window = [sidebarOpen |-> <<shell.sidebarOpen>>,
                                          setSidebarOpen |-> TRUE]]
    /\ UNCHANGED <<now, slot, form, adm, download, auth>>

\* a ResponsiveSidebar is mounted; its first effect reads the width
MountSidebar(s) ==
    /\ ~shell.side[s].mounted
    /\ shell' = [shell EXCEPT !.side[s] = [mounted |-> TRUE, isSidebarOpen |-> FALSE,
                                           isMobile |-> shell.mobile]]
    /\ UNCHANGED <<now, slot, form, adm, download, auth>>

\* a ResponsiveSidebar is unmounted
UnmountSidebar(s) ==
    /\ shell.side[s].mounted
    /\ shell' = [shell EXCEPT !.side[s] = InitialSidebar]
    /\ UNCHANGED <<now, slot, form, adm, download, auth>>

\* the window is resized across the md breakpoint: checkIfMobile of each
\* mounted sidebar
checkIfMobile ==
    /\ shell' = [shell EXCEPT
                   !.mobile = ~shell.mobile,
                   !.side = [s \in Sidebars |->
                               IF shell.side[s].mounted
                               THEN [shell.side[s] EXCEPT !.isMobile = ~shell.mobile]
                               ELSE shell.side[s]]]
    /\ UNCHANGED <<now, slot, form, adm, download, auth>>

\* a poll that copies nothing once the navbar state is defined
checkNavbarStateUndefinedOnly(s) ==
    /\ shell.side[s].mounted
    /\ shell.window.sidebarOpen = <<>>
    /\ shell' = [shell EXCEPT !.side[s].isSidebarOpen = FALSE]
    /\ UNCHANGED <<now, slot, form, adm, download, auth>>

\* checkNavbarState, run by the sidebar's interval every 100 ms
checkNavbarState(s) ==
    /\ shell.side[s].mounted
    /\ shell.window.sidebarOpen # <<>>
    /\ shell' = [shell EXCEPT !.side[s].isSidebarOpen = shell.window.sidebarOpen[1]]
    /\ UNCHANGED <<now, slot, form, adm, download, auth>>

\* handleClickOutside for a mousedown outside the sidebar and the navbar
handleClickOutside(s) ==
    /\ shell.side[s].mounted
    /\ shell.side[s].isMobile /\ shell.side[s].isSidebarOpen
    /\ shell.window.setSidebarOpen
    /\ shell' = setSidebarOpen(shell, FALSE)
    /\ UNCHANGED <<now, slot, form, adm, download, auth>>

\* the onClick of the mobile overlay
OverlayClick(s) ==
    /\ shell.side[s].mounted
    /\ shell.side[s].isMobile /\ shell.side[s].isSidebarOpen
    /\ shell.window.setSidebarOpen
    /\ shell' = setSidebarOpen(shell, FALSE)
    /\ UNCHANGED <<now, slot, form, adm, download, auth>>

----------------------------------------------------------------------------
(* The system: forms and admin views of several tabs sharing the slot *)

\* what the slot may hold when the application starts
InitialSlots == {Absent, Malformed}

Statuses == {"pending", "reviewed", "resolved"}

\* the ids Date.now() can produce within the clock's range
Ids == 0..MaxTime

\* no file was handed to the browser yet
NoDownload == <<>>

Init ==
    /\ now = 0
    /\ slot \in InitialSlots
    /\ form = [u \in Users |-> InitialForm(u)]
    /\ adm = [a \in Admins |-> InitialAdmin(0)]
    /\ download = [a \in Admins |-> NoDownload]
    /\ auth = InitialAuth
    /\ shell = InitialShell

\* one step of the form of tab u, typing values from the given sets
UserStep(u, subjects, messages, categories, stars) ==
    \/ \E v \in subjects : handleInputChange(u, "subject", v)
    \/ \E v \in messages : handleInputChange(u, "message", v)
    \/ \E v \in categories : handleInputChange(u, "category", v)
    \/ \E star \in stars : handleRatingClick(u, star)
    \/ handleSubmit(u)
    \/ handleSubmitResume(u)
    \/ handleSubmitReset(u)

\* one step of the admin view of tab a, mounted once
AdminStep(a) ==
    \/ loadFeedback(a)
    \/ \E i \in 1..(MaxRecords + 1) : RowStatusButton(a, i)
    \/ ModalStatusButton(a)
    \/ \E i \in 1..(MaxRecords + 1) : ViewDetails(a, i)
    \/ CloseDetails(a)

(* Spec: two forms and one admin view; the forms type one valid value per field *)

TypedSubjects == {Str(0, MinSubjectLen, 0)}
TypedMessages == {Str(0, MinMessageLen, 0)}
ClickedStars == {5}

Next ==
    \/ Tick
    \/ \E u \in Users : UserStep(u, TypedSubjects, TypedMessages, {}, ClickedStars)
    \/ Mount("a1")
    \/ AdminStep("a1")

Spec == Init /\ [][Next]_vars

(* SpecTabs: two forms, already filled in, and two admin views worked through *)
(* their table rows, each view holding its own copy of the collection        *)

\* the formData after handleInputChange and handleRatingClick typed valid values
FilledFormData(u) ==
    [InitialFormData(u) EXCEPT !.subject = Str(0, MinSubjectLen, 0),
                               !.message = Str(0, MinMessageLen, 0),
                               !.rating = 5]

InitTabs ==
    /\ now = 0
    /\ slot = Absent
    /\ form = [u \in Users |-> [InitialForm(u) EXCEPT !.formData = FilledFormData(u)]]
    /\ adm = [a \in Admins |-> InitialAdmin(0)]
    /\ download = [a \in Admins |-> NoDownload]
    /\ auth = InitialAuth
    /\ shell = InitialShell

NextTabs ==
    \/ Tick
    \/ \E u \in Users : handleSubmit(u) \/ handleSubmitResume(u) \/ handleSubmitReset(u)
    \/ \E a \in Admins : loadFeedback(a)
    \/ \E a \in Admins, i \in 1..(MaxRecords + 1) : RowStatusButton(a, i)

SpecTabs == InitTabs /\ [][NextTabs]_vars

(* SpecApi: Spec plus direct calls of updateFeedbackStatus with any id and status *)

CallUpdateStatus(a) ==
    /\ Rendered(a)
    /\ \E feedbackId \in Ids, newStatus \in Statuses :
        updateFeedbackStatus(a, feedbackId, newStatus)

NextApi ==
    \/ Tick
    \/ UserStep("u1", TypedSubjects, TypedMessages, {}, ClickedStars)
    \/ Mount("a1")
    \/ AdminStep("a1")
    \/ CallUpdateStatus("a1")

SpecApi == Init /\ [][NextApi]_vars

(* SpecForm: one form alone, submitting what was typed into it: values on both *)
(* sides of every validation rule                                              *)

\* the whitespace typed before and after a value is at most MaxPad characters
MaxPad == 1

BoundarySubjects ==
    {Str(l, b, t) : l \in 0..MaxPad, t \in 0..MaxPad,
                    b \in {0, MinSubjectLen - 1, MinSubjectLen}}
BoundaryMessages ==
    {Str(l, b, t) : l \in 0..MaxPad, t \in 0..MaxPad,
                    b \in {0, MinMessageLen - 1, MinMessageLen}}
Ratings == 0..5

\* the form of tab u1 after handleInputChange and handleRatingClick filled it
InitForm ==
    /\ now = 0
    /\ slot \in InitialSlots
    /\ adm = [a \in Admins |-> InitialAdmin(0)]
    /\ download = [a \in Admins |-> NoDownload]
    /\ auth = InitialAuth
    /\ shell = InitialShell
    /\ \E s \in BoundarySubjects, m \in BoundaryMessages, r \in Ratings,
          c \in {"general", "bug"} :
         form = [u \in Users |->
                   IF u = "u1"
                   THEN [InitialForm(u) EXCEPT !.formData.subject = s,
                                               !.formData.message = m,
                                               !.formData.rating = r,
                                               !.formData.category = c]
                   ELSE InitialForm(u)]

NextForm ==
    \/ Tick
    \/ handleSubmit("u1")
    \/ handleSubmitResume("u1")
    \/ handleSubmitReset("u1")

SpecForm == InitForm /\ [][NextForm]_vars

(* SpecLen: one form alone, typing subjects and messages at the lower bound of *)
(* validateForm and on both sides of the maxLength of the two inputs          *)

\* maxLength of the subject input and of the message textarea
MaxSubjectLen == 100
MaxMessageLen == 1000

\* the values the change events carry; maxLength is an attribute of the input
\* element, handleInputChange takes e.target.value as it comes
LengthSubjects == {Str(0, b, 0) : b \in {MinSubjectLen, MaxSubjectLen, MaxSubjectLen + 1}}
LengthMessages == {Str(0, b, 0) : b \in {MinMessageLen, MaxMessageLen, MaxMessageLen + 1}}

NextLen ==
    \/ Tick
    \/ UserStep("u1", LengthSubjects, LengthMessages, {}, ClickedStars)

SpecLen == Init /\ [][NextLen]_vars

(* SpecRating: one form clicking any of the five stars, one admin view working *)
(* through its table rows                                                     *)

\* the star buttons renderStarRating draws
Stars == 1..5

NextRating ==
    \/ Tick
    \/ UserStep("u1", TypedSubjects, TypedMessages, {}, Stars)
    \/ loadFeedback("a1")
    \/ \E i \in 1..(MaxRecords + 1) : RowStatusButton("a1", i)

SpecRating == Init /\ [][NextRating]_vars

(* SpecQuery: one admin view over a stored collection, changing its filters and *)
(* its sort and working through its table rows                                *)

\* the collections of SpecQuery and SpecExport hold at most MaxListLen records
MaxListLen == 3

\* what the records of a stored collection look like: who submitted, category,
\* rating and status
Shapes ==
    {[user |-> "u1", category |-> "general", rating |-> 5, status |-> "pending"],
     [user |-> "u2", category |-> "bug", rating |-> 3, status |-> "reviewed"],
     [user |-> "u1", category |-> "general", rating |-> 4, status |-> "resolved"]}

\* the record of shape sh submitted at time t, last updated at time tu
ShapedRecord(sh, t, tu) ==
    [NewFeedback([FilledFormData(sh.user) EXCEPT !.category = sh.category,
                                                 !.rating = sh.rating], t, t, t)
       EXCEPT !.status = sh.status,
              !.updatedAt = IF sh.status = "pending" THEN t ELSE tu]

\* the collections the forms and the admin views can have left in the slot:
\* the i-th record was submitted at time i - 1
StoredLists ==
    UNION {{[i \in 1..n |-> ShapedRecord(f[i], i - 1, n)] : f \in [1..n -> Shapes]}
             : n \in 0..MaxListLen}

InitQuery ==
    /\ now = MaxListLen
    /\ slot \in {Stored(list) : list \in StoredLists}
    /\ form = [u \in Users |-> InitialForm(u)]
    /\ adm = [a \in Admins |-> InitialAdmin(0)]
    /\ download = [a \in Admins |-> NoDownload]
    /\ auth = InitialAuth
    /\ shell = InitialShell

\* the options chosen in the three selects and the terms typed in the search box
ChosenCategories == {"all", "bug"}
ChosenStatuses == {"all", "pending"}
ChosenRatings == {"all", "3"}
TypedSearches == {<<>>, <<" ">>, <<"U">>}
\* the column headers that call handleSort
SortKeys == {"createdAt", "userName", "rating"}

FilterStep(a) ==
    \/ \E v \in ChosenCategories : handleFilterChange(a, "category", v)
    \/ \E v \in ChosenStatuses : handleFilterChange(a, "status", v)
    \/ \E v \in ChosenRatings : handleFilterChange(a, "rating", v)
    \/ \E v \in TypedSearches : handleFilterChange(a, "search", v)

NextQuery ==
    \/ loadFeedback("a1")
    \/ FilterStep("a1")
    \/ \E key \in SortKeys : handleSort("a1", key)
    \/ \E i \in 1..MaxListLen : RowStatusButton("a1", i)

SpecQuery == InitQuery /\ [][NextQuery]_vars

(* SpecExport: one admin view over a stored collection, changing its filters and *)
(* its sort and exporting                                                      *)

NextExport ==
    \/ loadFeedback("a1")
    \/ FilterStep("a1")
    \/ \E key \in SortKeys : handleSort("a1", key)
    \/ exportFeedback("a1")

SpecExport == InitQuery /\ [][NextExport]_vars

(* SpecRound: one admin view over a stored collection, calling               *)
(* updateFeedbackStatus with any id and status                                *)

NextRound ==
    \/ loadFeedback("a1")
    \/ CallUpdateStatus("a1")
    \/ \E i \in 1..MaxListLen : ViewDetails("a1", i)
    \/ CloseDetails("a1")

SpecRound == InitQuery /\ [][NextRound]_vars

(* SpecLive: SpecTabs over an absent or a malformed slot, with the timers of the *)
(* awaits firing: the clock advances and a callback whose delay has elapsed runs *)

InitLive ==
    /\ now = 0
    /\ slot \in InitialSlots
    /\ form = [u \in Users |-> [InitialForm(u) EXCEPT !.formData = FilledFormData(u)]]
    /\ adm = [a \in Admins |-> InitialAdmin(0)]
    /\ download = [a \in Admins |-> NoDownload]
    /\ auth = InitialAuth
    /\ shell = InitialShell

\* a submission is started while the clock can still run past its delay
NextLive ==
    \/ Tick
    \/ \E u \in Users : now < MaxTime /\ handleSubmit(u)
    \/ \E u \in Users : handleSubmitResume(u)
    \/ \E u \in Users : handleSubmitReset(u)
    \/ \E a \in Admins : loadFeedback(a)
    \/ \E a \in Admins, i \in 1..(MaxRecords + 1) : RowStatusButton(a, i)

SpecLive ==
    /\ InitLive /\ [][NextLive]_vars
    /\ WF_vars(Tick)
    /\ \A u \in Users : WF_vars(handleSubmitResume(u))
    /\ \A a \in Admins : WF_vars(loadFeedback(a))

----------------------------------------------------------------------------
(* Claims *)

AllowedTransitions ==
    {<<"pending", "reviewed">>, <<"reviewed", "resolved">>,
     <<"reviewed", "pending">>, <<"resolved", "pending">>}

\* a step of the admin view a that is neither a mount nor a load: a UI action
\* on the list the view holds
AdminAction(a) ==
    /\ adm[a].pc = "ready" /\ adm'[a].pc = "ready"
    /\ adm'[a] # adm[a]

\* C1: over any sequence of admin actions (row buttons, modal buttons) every change
\* of the status of a record of the view's list is pending->reviewed,
\* reviewed->resolved, reviewed->pending or resolved->pending
C1_OnlyExposedTransitions ==
    [][\A a \in Admins :
         AdminAction(a) =>
           /\ Len(adm'[a].feedback) = Len(adm[a].feedback)
           /\ \A i \in 1..Len(adm[a].feedback) :
                \/ adm'[a].feedback[i].status = adm[a].feedback[i].status
                \/ <<adm[a].feedback[i].status, adm'[a].feedback[i].status>>
                      \in AllowedTransitions]_vars

Range(list) == {list[i] : i \in 1..Len(list)}

C3_UnknownIdLeavesSlot ==
    [][\A a \in Admins, feedbackId \in Ids, newStatus \in Statuses :
         (/\ updateFeedbackStatus(a, feedbackId, newStatus)
          /\ Matches(adm[a].feedback, feedbackId) = {})
         => Parsed(slot') = Parsed(slot)]_vars

\* C4: updateFeedbackStatus reads the slot at the time of the call and replaces only
\* the matching record: the slot keeps its length and every record with another id
C4_UpdateWorksOnCurrentSlot ==
    [][\A a \in Admins, feedbackId \in Ids, newStatus \in Statuses :
         updateFeedbackStatus(a, feedbackId, newStatus)
         => /\ Len(Parsed(slot')) = Len(Parsed(slot))
            /\ \A j \in 1..Len(Parsed(slot)) :
                 Parsed(slot)[j].id # feedbackId => Parsed(slot')[j] = Parsed(slot)[j]]_vars

\* C5: a record is never deleted: every id in the slot is in the slot after any step
C5_NeverDeleted ==
    [][\A j \in 1..Len(Parsed(slot)) :
         \E k \in 1..Len(Parsed(slot')) : Parsed(slot')[k].id = Parsed(slot)[j].id]_vars

\* C6: writes are whole-collection overwrites, the last writer wins: after
\* updateFeedbackStatus the slot is the writer's own list, each record of it taken
\* from the copy the writer held or changed by this call, whatever the slot held
C6_LastWriterWins ==
    [][\A a \in Admins, feedbackId \in Ids, newStatus \in Statuses :
         updateFeedbackStatus(a, feedbackId, newStatus)
         => /\ slot'.kind = "json"
            /\ Parsed(slot') = adm'[a].feedback
            /\ \A r \in Range(Parsed(slot')) :
                 \/ r \in Range(adm[a].feedback)
                 \/ r.id = feedbackId /\ r.status = newStatus]_vars

\* C6 witness: a lost update. Both views hold a copy of the same two records; a1
\* changed one record, a2 another, a2 wrote last: a1's change is not in the slot
C6_Witness ==
    /\ adm["a1"].pc = "ready" /\ adm["a2"].pc = "ready"
    /\ Len(adm["a1"].feedback) = 2 /\ Len(adm["a2"].feedback) = 2
    /\ \E i \in 1..2, j \in 1..2 :
         /\ i # j
         /\ adm["a1"].feedback[i].status = "reviewed"
         /\ adm["a2"].feedback[i].status = "pending"
         /\ adm["a2"].feedback[j].status = "reviewed"
         /\ adm["a1"].feedback[j].status = "pending"
    /\ Parsed(slot) = adm["a2"].feedback

\* a step in which the submission of form u was stored
Stores(u) == form[u].pc = "submitting" /\ form'[u].pc = "resetting"

\* C7: a successful submission appends: the slot afterwards is the collection read
\* at submission time, unchanged in fields and order, with the new record at the end
C7_SubmissionAppends ==
    [][\A u \in Users :
         Stores(u) =>
           LET before == Parsed(slot)
               after == Parsed(slot')
           IN /\ Len(after) = Len(before) + 1
              /\ SubSeq(after, 1, Len(before)) = before
              /\ after[Len(after)].userEmail = form[u].sub.userEmail
              /\ after[Len(after)].subject = form[u].sub.subject
              /\ after[Len(after)].id = now]_vars

\* C7 witness: the form of u2 shows its success banner, its record is the last of
\* the slot and the record stored before it, already reviewed, is still the first
C7_Witness ==
    /\ form["u2"].success
    /\ Len(Parsed(slot)) = 2
    /\ Parsed(slot)[2].userEmail = Profile("u2").email
    /\ Parsed(slot)[1].userEmail = Profile("u1").email
    /\ Parsed(slot)[1].status = "reviewed"

\* the admin view a has finished loading
Loaded(a) == adm[a].pc = "ready"

FirstFailing(fails) ==
    IF fails[1] THEN ErrSubjectRequired
    ELSE IF fails[2] THEN ErrSubjectTooShort
    ELSE IF fails[3] THEN ErrMessageRequired
    ELSE IF fails[4] THEN ErrMessageTooShort
    ELSE IF fails[5] THEN ErrRatingRequired
    ELSE NoError

\* the rules as the claim words them: the length rules on the value as typed
RulesAsStated(fd) ==
    <<Trim(fd.subject) = <<>>, Len(fd.subject) < 5,
      Trim(fd.message) = <<>>, Len(fd.message) < 10, fd.rating < 1>>

\* the rules with the length rules on the trimmed value
RulesTrimmed(fd) ==
    <<Trim(fd.subject) = <<>>, Len(Trim(fd.subject)) < 5,
      Trim(fd.message) = <<>>, Len(Trim(fd.message)) < 10, fd.rating < 1>>

\* C9 as stated: the error shown after handleSubmit is the error of the first failing
\* rule in the order subject empty after trimming, subject shorter than 5, message
\* empty after trimming, message shorter than 10, rating below 1
C9_FirstFailingRuleAsStated ==
    [][handleSubmit("u1")
       => form'["u1"].error = FirstFailing(RulesAsStated(form["u1"].formData))]_vars

\* C9 amended: the same order, the two length rules applied to the trimmed value:
\* the error shown after handleSubmit is the error of the first failing rule, and
\* the submission is accepted exactly when no rule fails
C9_FirstFailingRuleTrimmed ==
    [][handleSubmit("u1")
       => /\ form'["u1"].error = FirstFailing(RulesTrimmed(form["u1"].formData))
          /\ (form'["u1"].pc = "submitting")
               <=> (\A k \in 1..5 : ~RulesTrimmed(form["u1"].formData)[k])]_vars

\* C9 witness: subject too short, message empty and no rating: of the three failing
\* rules the earliest is the one reported
C9_Witness ==
    /\ form["u1"].error = ErrSubjectTooShort
    /\ Len(Trim(form["u1"].formData.subject)) = 4
    /\ Len(form["u1"].formData.subject) >= 5
    /\ Trim(form["u1"].formData.message) = <<>>
    /\ form["u1"].formData.rating = 0

\* the claim's valid input: subject of at least 5, message of at least 10 characters
\* (surrounding whitespace not counted), rating in 1..5
ValidInput(fd) ==
    /\ Len(Trim(fd.subject)) >= 5
    /\ Len(Trim(fd.message)) >= 10
    /\ fd.rating \in 1..5

\* C10: for every valid input the submission is accepted, and the record it stores
\* has status pending and createdAt equal to updatedAt
C10_ValidStoredPendingSameTimes ==
    [][/\ (handleSubmit("u1") /\ ValidInput(form["u1"].formData))
          => form'["u1"].pc = "submitting"
       /\ Stores("u1")
          => LET stored == Parsed(slot')[Len(Parsed(slot'))]
             IN stored.status = "pending" /\ stored.createdAt = stored.updatedAt]_vars

\* C11: every record written to the slot has a subject of 5 to 100 characters and a
\* message of 10 to 1000 characters
C11_StoredWithinLengthBounds ==
    \A i \in 1..Len(Parsed(slot)) :
        /\ Len(Parsed(slot)[i].subject) >= 5 /\ Len(Parsed(slot)[i].subject) <= 100
        /\ Len(Parsed(slot)[i].message) >= 10 /\ Len(Parsed(slot)[i].message) <= 1000

\* C12: in every state of the persisted collection no two records have the same id
C12_IdsUnique ==
    \A i \in 1..Len(Parsed(slot)), j \in 1..Len(Parsed(slot)) :
        Parsed(slot)[i].id = Parsed(slot)[j].id => i = j

\* C13: the form's rating is always in 0..5 and every stored record has a rating in
\* 1..5; a submission with rating 0 is rejected (an error is shown, nothing is
\* stored, no submission starts); no step of the admin view changes the rating of a
\* record of its list
C13_RatingInRange ==
    /\ [](/\ \A u \in Users : form[u].formData.rating \in 0..5
          /\ \A i \in 1..Len(Parsed(slot)) : Parsed(slot)[i].rating \in 1..5
          /\ \A a \in Admins : \A i \in 1..Len(adm[a].feedback) :
                 adm[a].feedback[i].rating \in 1..5)
    /\ [][/\ \A u \in Users :
               (form[u].formData.rating = 0 /\ handleSubmit(u))
                 => /\ form'[u].error \notin {NoError, ErrSubmitFailed}
                    /\ form'[u].pc = "idle" /\ ~form'[u].loading
                    /\ slot' = slot
          /\ \A u \in Users :
               form[u].formData.rating = 0 => form'[u].pc # "submitting"
          /\ \A a \in Admins :
               (adm[a].pc = "ready" /\ adm'[a].pc = "ready")
                 => /\ Len(adm'[a].feedback) = Len(adm[a].feedback)
                    /\ \A i \in 1..Len(adm[a].feedback) :
                         adm'[a].feedback[i].rating = adm[a].feedback[i].rating]_vars

\* a record rated 3 was stored and moved to reviewed, and a later submission with
\* subject and message filled in but no star clicked was rejected
C13_Witness ==
    /\ \E i \in 1..Len(Parsed(slot)) :
          Parsed(slot)[i].rating = 3 /\ Parsed(slot)[i].status = "reviewed"
    /\ form["u1"].formData.rating = 0
    /\ form["u1"].error = ErrRatingRequired

Inactive(filters) ==
    /\ filters.category = "all" /\ filters.status = "all"
    /\ filters.rating = "all" /\ filters.search = <<>>

Count(list, r) == Cardinality({i \in 1..Len(list) : list[i] = r})

\* the same records the same number of times, in any order
IsPermutation(view, list) ==
    /\ Len(view) = Len(list)
    /\ \A r \in Range(view) \cup Range(list) : Count(view, r) = Count(list, r)

\* C14: with category, status and rating 'all' and the search empty, the filtered
\* view is a permutation of the full in-memory list
C14_InactiveFiltersPermutation ==
    \A a \in Admins :
        Inactive(adm[a].filters) => IsPermutation(adm[a].filteredFeedback, adm[a].feedback)

\* a view of three records, all filters inactive, in another order than the list
C14_Witness ==
    /\ Rendered("a1") /\ Inactive(adm["a1"].filters)
    /\ Len(adm["a1"].feedback) = 3
    /\ adm["a1"].filteredFeedback # adm["a1"].feedback

\* a record matches the search when the lowercased term is a substring of the
\* lowercased subject, message, userName or userEmail
SearchHit(f, search) ==
    \E field \in {"subject", "message", "userName", "userEmail"} :
        \E i \in 0..(Len(f[field]) - Len(search)) :
            \A k \in 1..Len(search) :
                ToLowerChar(f[field][i + k]) = ToLowerChar(search[k])

\* category, status and rating match by equality with the selected value
SelectsHit(f, filters) ==
    /\ filters.category # "all" => f.category = filters.category
    /\ filters.status # "all" => f.status = filters.status
    /\ \A n \in 1..5 : filters.rating = ToString(n) => f.rating = n

\* C15 as stated: the view holds exactly the records matching every active filter,
\* the search being active whenever it is not empty
C15_FiltersComposeAsStated ==
    \A a \in Admins :
        LET Hit(f) == /\ SelectsHit(f, adm[a].filters)
                      /\ adm[a].filters.search # <<>> => SearchHit(f, adm[a].filters.search)
        IN IsPermutation(adm[a].filteredFeedback, SelectSeq(adm[a].feedback, Hit))

\* C15: the view holds exactly the records matching every active filter, the search
\* being active when it is not empty after trimming and matching by the term as
\* typed, lowercased
C15_FiltersComposeTrimmed ==
    \A a \in Admins :
        LET Hit(f) == /\ SelectsHit(f, adm[a].filters)
                      /\ Trim(adm[a].filters.search) # <<>>
                           => SearchHit(f, adm[a].filters.search)
        IN IsPermutation(adm[a].filteredFeedback, SelectSeq(adm[a].feedback, Hit))

\* category, rating and search all active, leaving some records and dropping others
C15_Witness ==
    /\ Rendered("a1")
    /\ adm["a1"].filters.category = "bug" /\ adm["a1"].filters.rating = "3"
    /\ adm["a1"].filters.search = <<"U">>
    /\ adm["a1"].filteredFeedback # <<>>
    /\ Len(adm["a1"].filteredFeedback) < Len(adm["a1"].feedback)

\* x <= y on strings in the native order: x is a prefix of y, or the first
\* character in which they differ has the smaller code unit in x
StrLeq(x, y) ==
    \/ Len(x) <= Len(y) /\ \A k \in 1..Len(x) : x[k] = y[k]
    \/ \E i \in 1..Len(x) :
          /\ i <= Len(y)
          /\ \A k \in 1..(i - 1) : x[k] = y[k]
          /\ CharCode(x[i]) < CharCode(y[i])

\* the key value of x is <= the key value of y
KeyLeq(key, x, y) ==
    CASE key = "createdAt" -> x.createdAt <= y.createdAt
      [] key = "rating" -> x.rating <= y.rating
      [] key = "userName" -> StrLeq(x.userName, y.userName)

\* C16: adjacent records of the filtered view are in the order of the sort key:
\* non-decreasing when the direction is asc, non-increasing when it is desc
C16_ViewOrderedBySort ==
    \A a \in Admins :
        \A i \in 1..(Len(adm[a].filteredFeedback) - 1) :
            LET x == adm[a].filteredFeedback[i]
                y == adm[a].filteredFeedback[i + 1]
            IN IF adm[a].sortConfig.direction = "asc"
               THEN KeyLeq(adm[a].sortConfig.key, x, y)
               ELSE KeyLeq(adm[a].sortConfig.key, y, x)

\* three records sorted by rating, descending, from a list stored in another order
C16_Witness ==
    /\ Rendered("a1")
    /\ adm["a1"].sortConfig = [key |-> "rating", direction |-> "desc"]
    /\ Len(adm["a1"].filteredFeedback) = 3
    /\ adm["a1"].filteredFeedback[1].rating > adm["a1"].filteredFeedback[3].rating
    /\ adm["a1"].feedback[1].rating < adm["a1"].feedback[3].rating

\* the sum of the ratings of the records of list
RatingTotal(list) ==
    LET RECURSIVE Upto(_)
        Upto(n) == IF n = 0 THEN 0 ELSE Upto(n - 1) + list[n].rating
    IN Upto(Len(list))

\* st is what computeStatistics returns for list: the number of records, the number
\* of records of each status, and the mean rating rounded to one decimal place
\* (in tenths: within half a tenth of the mean), 0 for the empty list
StatsAsStated(st, list) ==
    /\ st.total = Len(list)
    /\ \A status \in Statuses :
          st[status] = Cardinality({i \in 1..Len(list) : list[i].status = status})
    /\ IF list = <<>> THEN st.averageRating10 = 0
       ELSE LET diff == st.averageRating10 * Len(list) - 10 * RatingTotal(list)
            IN 2 * diff <= Len(list) /\ 2 * (0 - diff) <= Len(list)

\* C17: the statistics calculateStats set for a list are its total, its counts per
\* status and its mean rating rounded to one decimal place, all zero for the empty
\* list
C17_StatsAsStated ==
    \A a \in Admins :
        (adm[a].pc = "ready" /\ adm[a].error = NoError)
          => /\ StatsAsStated(adm[a].stats, adm[a].feedback)
             /\ StatsAsStated(calculateStats(adm[a].filteredFeedback), adm[a].filteredFeedback)

\* the statistics of three records rated 5, 3 and 4: average 4.0
C17_Witness ==
    /\ Rendered("a1")
    /\ Len(adm["a1"].feedback) = 3
    /\ adm["a1"].feedback[1].rating = 5 /\ adm["a1"].feedback[2].rating = 3
    /\ adm["a1"].feedback[3].rating = 4
    /\ adm["a1"].stats.total = 3 /\ adm["a1"].stats.averageRating10 = 40

\* C18: the displayed statistics are those of the full in-memory list at every
\* moment (after the load, after every status update), and a change of the filters
\* or of the sort leaves them as they were
C18_StatsDescribeFullList ==
    /\ [](\A a \in Admins : adm[a].stats = calculateStats(adm[a].feedback))
    /\ [][\A a \in Admins :
            (adm'[a].filters # adm[a].filters \/ adm'[a].sortConfig # adm[a].sortConfig)
              => adm'[a].stats = adm[a].stats]_vars

\* a list of two records, one of them updated by a row button, filtered down to
\* fewer records by status while the statistics still count both
C18_Witness ==
    /\ Rendered("a1")
    /\ Len(adm["a1"].feedback) = 2
    /\ \E i \in 1..2 : adm["a1"].feedback[i].updatedAt = MaxListLen
    /\ adm["a1"].filters.status = "pending"
    /\ Len(adm["a1"].filteredFeedback) < 2
    /\ adm["a1"].stats.total = 2

\* C19: an export hands over the serialization of the view as currently filtered
\* and sorted, and leaves the in-memory list, the filters, the sort, the statistics
\* and the slot as they were
C19_ExportViewNoEffect ==
    [][\A a \in Admins :
         download'[a] # download[a]
           => /\ download'[a] # NoDownload
              /\ JSONParse(download'[a][1].data) = adm[a].filteredFeedback
              /\ adm[a].filteredFeedback =
                     FilteredView(adm[a].feedback, adm[a].filters, adm[a].sortConfig)
              /\ adm' = adm /\ slot' = slot /\ form' = form]_vars

\* an exported file holding some but not all records of the list, which the slot
\* and the view still hold in full
C19_Witness ==
    /\ download["a1"] # NoDownload
    /\ JSONParse(download["a1"][1].data) = adm["a1"].filteredFeedback
    /\ adm["a1"].filteredFeedback # <<>>
    /\ Len(adm["a1"].filteredFeedback) < Len(adm["a1"].feedback)
    /\ adm["a1"].filteredFeedback[1] # adm["a1"].feedback[1]
    /\ Parsed(slot) = adm["a1"].feedback

C21_RunToCompletion ==
    /\ \A a \in Admins :
          adm[a].loading ~> (~adm[a].loading /\ (Rendered(a) \/ adm[a].error # NoError))
    /\ \A u \in Users :
          form[u].loading ~> (~form[u].loading
                                /\ (form[u].success \/ form[u].error # NoError))

\* a load that ended with the error message and a submission that ended with one
C21_Witness ==
    /\ ~adm["a1"].loading /\ adm["a1"].error = ErrLoadFailed
    /\ ~form["u1"].loading /\ form["u1"].error = ErrSubmitFailed

\* C24: a status update leaves the persisted collection with the same number of
\* records in the same order, every record without the updated id as it was, and
\* the records with that id changed in status and updatedAt at most
C24_UpdateChangesOnlyStatusAndTime ==
    [][(form' = form /\ slot' # slot)
         => LET old == Parsed(slot)
                new == Parsed(slot')
            IN /\ Len(new) = Len(old)
               /\ \E feedbackId \in Ids :
                    \A i \in 1..Len(old) :
                       IF old[i].id = feedbackId
                       THEN [new[i] EXCEPT !.status = old[i].status,
                                           !.updatedAt = old[i].updatedAt] = old[i]
                       ELSE new[i] = old[i]]_vars

\* C25: when the slot holds malformed data, a submission that passed validation
\* succeeds without an error and leaves the slot holding exactly the new record
C25_MalformedSlotSubmitSucceeds ==
    [][\A u \in Users :
         (ParseThrows(slot) /\ handleSubmitResume(u))
           => /\ form'[u].success /\ form'[u].error = NoError
              /\ slot'.kind = "json" /\ Len(Parsed(slot')) = 1
              /\ Parsed(slot')[1].subject = form[u].sub.subject]_vars

\* C26: a submission that fails validation sets the error message and nothing else:
\* the slot, the form fields, the loading and success flags are as before, no
\* submission is started and no record is created
C26_FailedValidationNoEffect ==
    [][\A u \in Users :
         (validateForm(form[u].formData) # NoError /\ handleSubmit(u))
           => /\ form'[u].error = validateForm(form[u].formData)
              /\ form'[u].formData = form[u].formData
              /\ form'[u].loading = form[u].loading
              /\ form'[u].success = form[u].success
              /\ form'[u].pc = form[u].pc
              /\ slot' = slot /\ adm' = adm]_vars

\* a form holding a subject that is too short, rejected, with nothing stored
C26_Witness ==
    /\ form["u1"].error = ErrSubjectTooShort
    /\ form["u1"].formData.subject # <<>>
    /\ ~form["u1"].loading /\ ~form["u1"].success /\ form["u1"].pc = "idle"
    /\ Parsed(slot) = <<>>

\* C27: while a form is loading or shows its success banner no second submission
\* starts on it, and every accepted submission, when it completes, has appended
\* exactly one record to the slot
C27_OneSubmissionOneRecord ==
    [][\A u \in Users :
         /\ (form[u].loading \/ form[u].success)
              => ~(form[u].pc # "submitting" /\ form'[u].pc = "submitting")
         /\ (form[u].pc = "submitting" /\ form'[u].pc # "submitting")
              => /\ slot'.kind = "json"
                 /\ Len(Parsed(slot')) = Len(Parsed(slot)) + 1]_vars

----------------------------------------------------------------------------
(* The session alone: any stored session, any context user *)

\* a stored 'users' list other than the default one
OtherUsers ==
    <<[email |-> <<"u", "@", "x">>, password |-> <<"x">>,
       role |-> "admin", userId |-> "user-789"]>>

TypedEmails == {<<" ">>, <<"a", "@", "x">>, <<"u", "@", "x">>}

TypedPasswords == {<<"p", "w">>, <<"x">>}

Roles == {"admin", "user"}

InitAuth ==
    /\ now = 0
    /\ slot = Absent
    /\ form = [u \in Users |-> InitialForm(u)]
    /\ adm = [a \in Admins |-> InitialAdmin(0)]
    /\ download = [a \in Admins |-> NoDownload]
    /\ shell = InitialShell
    /\ \E token \in {<<>>, <<0>>}, userRole \in Roles \cup {Null},
          user \in {<<>>, <<<<"a", "@", "x">>>>},
          users \in {Absent, Malformed, [kind |-> "json", data |-> OtherUsers]},
          userLogs \in {Absent, Malformed} :
         auth = [InitialAuth EXCEPT !.token = token, !.userRole = userRole,
                                    !.user = user, !.users = users,
                                    !.userLogs = userLogs]

NextAuth ==
    \/ Tick
    \/ AuthChecked
    \/ AuthRouter
    \/ LoginExistingAuth
    \/ \E role \in Roles : handleRoleSelect(role)
    \/ handleBackToRoleSelection
    \/ \E value \in TypedEmails : setEmail(value)
    \/ \E value \in TypedPasswords : setPassword(value)
    \/ LoginSubmit
    \/ LoginSubmitResume
    \/ \E path \in {"/", "/login"} : Visit(path)

SpecAuth == InitAuth /\ [][NextAuth]_vars

\* the visitor is authenticated for AuthRouter
IsAuthenticated == auth.user # <<>> \/ auth.token # <<>>

\* C22: once loading is false AuthRouter sends a visitor with no context user and no
\* token to /login, an authenticated one whose stored role is admin to
\* /admin/dashboard and one whose stored role is user to /user/dashboard; it sends
\* nobody unauthenticated to a dashboard and nobody to the other role's dashboard
C22_RouterFollowsSession ==
    [][AuthRouter
         => /\ ~auth.loading
            /\ ~IsAuthenticated => auth'.path = "/login"
            /\ (IsAuthenticated /\ auth.userRole = "admin")
                 => auth'.path = "/admin/dashboard"
            /\ (IsAuthenticated /\ auth.userRole = "user")
                 => auth'.path = "/user/dashboard"
            /\ auth'.path \in Dashboards => IsAuthenticated
            /\ auth'.path = "/admin/dashboard" => auth.userRole = "admin"
            /\ auth'.path = "/user/dashboard" => auth.userRole = "user"]_vars

\* C22 witness: the router has sent a visitor known to the context only, with the
\* stored role user, to the user dashboard
C22_Witness ==
    /\ auth.path = "/user/dashboard"
    /\ auth.token = <<>> /\ auth.user # <<>> /\ auth.userRole = "user"

\* the four keys a login writes
LoginKeys(a) == <<a.token, a.userRole, a.userId, a.email>>

\* C23: a step of Login changes token, userRole, userId or email only when a stored
\* (or default) user has the submitted email and password and its role is the
\* selected role; a submit with a blank field, with credentials no user has or with
\* the role of another kind shows an error and changes none of the keys nor userLogs
C23_LoginWritesOnlyOnMatch ==
    [][/\ LoginKeys(auth') # LoginKeys(auth)
            => \E i \in 1..Len(StoredUsers(auth.users)) :
                  LET u == StoredUsers(auth.users)[i]
                  IN /\ ~ParseThrows(auth.users)
                     /\ u.email = auth.login.sub.email
                     /\ u.password = auth.login.sub.password
                     /\ u.role = auth.login.sub.selectedRole
                     /\ auth'.userRole = u.role /\ auth'.userId = u.userId
                     /\ auth'.email = <<u.email>>
       /\ (LoginSubmit /\ (Trim(auth.login.email) = <<>>
                              \/ Trim(auth.login.password) = <<>>))
            => /\ auth'.login.error = ErrCredentialsRequired
               /\ LoginKeys(auth') = LoginKeys(auth) /\ auth'.userLogs = auth.userLogs
               /\ auth'.login.pc = "idle"
       /\ (LoginSubmitResume /\ ~ParseThrows(auth.users))
            => LET found == FindUser(StoredUsers(auth.users), auth.login.sub.email,
                                     auth.login.sub.password)
               IN /\ found = <<>>
                      => /\ auth'.login.error = ErrInvalidCredentials
                         /\ LoginKeys(auth') = LoginKeys(auth)
                         /\ auth'.userLogs = auth.userLogs
                  /\ (found # <<>> /\ found[1].role # auth.login.sub.selectedRole)
                      => /\ auth'.login.error = ErrWrongRole(found[1].role)
                         /\ LoginKeys(auth') = LoginKeys(auth)
                         /\ auth'.userLogs = auth.userLogs]_vars

\* C23 witness: a login has succeeded: the keys are written, the log has its entry
\* and the visitor is on the dashboard of the role
C23_Witness ==
    /\ auth.email = <<<<"u", "@", "x">>>> /\ auth.userRole = "user"
    /\ auth.userLogs.kind = "json" /\ Len(auth.userLogs.data) = 1
    /\ auth.path = "/user/dashboard"

\* C29: a visitor with a stored token and no stored role is never on a dashboard:
\* AuthRouter sends them to /login and Login's existing-session check does not
\* forward them
C29_TokenWithoutRoleStaysOffDashboards ==
    (auth.token # <<>> /\ auth.userRole = Null) => auth.path \notin Dashboards


----------------------------------------------------------------------------
(* The hamburger state alone: a signed-in visitor on a dashboard page; the   *)
(* Navbar's effect runs after each render that changed sidebarOpen and each  *)
(* mounted sidebar's interval keeps firing                                   *)

\* the session a login of the default user i leaves
SignedIn(i) ==
    LET u == DefaultUsers[i]
    IN [InitialAuth EXCEPT !.token = <<0>>, !.userRole = u.role, !.userId = u.userId,
                           !.email = <<u.email>>, !.user = <<u.email>>,
                           !.userLogs = [kind |-> "json",
                                         data |-> <<LogData(u, u.email, 0)>>],
                           !.loading = FALSE, !.path = LoginDashboard(u.role)]

InitShell ==
    /\ now = 0
    /\ slot = Absent
    /\ form = [u \in Users |-> InitialForm(u)]
    /\ adm = [a \in Admins |-> InitialAdmin(0)]
    /\ download = [a \in Admins |-> NoDownload]
    /\ shell = InitialShell
    /\ \E i \in 1..Len(DefaultUsers) : auth = SignedIn(i)

NextShell ==
    \/ handleSidebarToggle
    \/ NavbarExpose
    \/ checkIfMobile
    \/ \E s \in Sidebars : MountSidebar(s)
    \/ \E s \in Sidebars : UnmountSidebar(s)
    \/ \E s \in Sidebars : checkNavbarState(s)
    \/ \E s \in Sidebars : handleClickOutside(s)
    \/ \E s \in Sidebars : OverlayClick(s)

SpecShell ==
    /\ InitShell /\ [][NextShell]_vars
    /\ WF_vars(NavbarExpose)
    /\ \A s \in Sidebars : WF_vars(checkNavbarState(s))

\* the sidebar s, when mounted, shows the Navbar's state
Follows(s) == shell.side[s].mounted => shell.side[s].isSidebarOpen = shell.sidebarOpen

\* C30: whenever a mounted sidebar's isSidebarOpen differs from the Navbar's
\* sidebarOpen (after a toggle, or after an outside or overlay click cleared it
\* through window.setSidebarOpen), the two are eventually equal again
C30_SidebarFollowsNavbar ==
    \A s \in Sidebars : (~Follows(s)) ~> Follows(s)

\* C30 witness: the Navbar was toggled open, its effect has exposed the state and
\* a mounted sidebar has picked it up
C30_Witness ==
    /\ shell.sidebarOpen /\ shell.exposed
    /\ shell.side["s1"].mounted /\ shell.side["s1"].isSidebarOpen

====
